---- MODULE Spec2Model ----
(***************************************************************************)
(* The log-structured key-value engine KVStore (on-disk/src/kv.rs, and its *)
(* twin with_server/src/engines/kvs.rs) and the sled-backed engine         *)
(* SledKVStore (with_server/src/engines/seld.rs).                          *)
(*                                                                         *)
(* A segment file is the sequence of the encoded records appended to it;   *)
(* every record carries the number of bytes of its serde_json encoding, so *)
(* offsets and lengths are byte counts as in the code.  A value is a run    *)
(* of `n` copies of one character, which lets a single value be large      *)
(* enough for a few overwrites to cross COMPACTION_THRESHOLD.              *)
(***************************************************************************)
EXTENDS Integers, Sequences, FiniteSets, TLC

\* ---------------------------------------------------------------- bounds
\* number of connections made to the server in one run
MaxConns == 3
\* number of state-changing calls (set, remove, compact, drop) of one run
MaxOps == 5
\* byte length of the large value
BigLen == 600000

\* ------------------------------------------------------------ constants
COMPACTION_THRESHOLD == 1024 * 1024

\* keys in BTreeMap (lexicographic) order
KeySeq == <<"a", "b">>
Keys == {KeySeq[i] : i \in 1..Len(KeySeq)}

NoValue == [ch |-> "", n |-> 0]
Values == {[ch |-> "x", n |-> 1], [ch |-> "z", n |-> BigLen]}

\* results of the engine calls
R(tag, value) == [tag |-> tag, value |-> value]
Ok == R("Ok", NoValue)
None == R("None", NoValue)
Some(value) == R("Some", value)
KeyNotFound == R("KeyNotFound", NoValue)
SerdeError == R("Serde", NoValue)
UnexpectedCommandType == R("UnexpectedCommandType", NoValue)
Panic == R("Panic", NoValue)
IoError == R("Io", NoValue)

\* ------------------------------------------------------------ the codec
\* Command::Set(key, value) and Command::Remove(key)
CommandSet(key, value) == [type |-> "Set", key |-> key, value |-> value]
CommandRemove(key) == [type |-> "Remove", key |-> key, value |-> NoValue]

\* number of bytes of a key (the keys of the model are one character long)
key_len(key) == 1

\* serde_json's encoding of a Command, with its length in bytes:
\*   {"Set":["k","v"]}  is 15 bytes plus the key and the value
\*   {"Remove":"k"}     is 13 bytes plus the key
encode(command) ==
    [type |-> command.type, key |-> command.key, value |-> command.value,
     len |-> IF command.type = "Set"
             THEN 15 + key_len(command.key) + command.value.n
             ELSE 13 + key_len(command.key)]

\* a record cut short after `len` bytes: it decodes as nothing
truncated(rec, len) ==
    [type |-> "Truncated", key |-> rec.key, value |-> rec.value, len |-> len]

\* bytes that are not one whole record
Garbage(len) == [type |-> "Garbage", key |-> "", value |-> NoValue, len |-> len]

RECURSIVE file_len(_)
file_len(f) == IF f = <<>> THEN 0 ELSE Head(f).len + file_len(Tail(f))

\* offset of the i-th record of a file
offset_of(f, i) == file_len(SubSeq(f, 1, i - 1))

\* total size in bytes of the segment files of a directory
RECURSIVE dir_size(_)
dir_size(db) ==
    IF DOMAIN db = {} THEN 0
    ELSE LET n == CHOOSE n \in DOMAIN db : TRUE
         IN file_len(db[n]) + dir_size([m \in DOMAIN db \ {n} |-> db[m]])

\* reader.seek(Start(offset)); reader.take(length): the bytes of that range
take(f, offset, length) ==
    LET idx == {i \in 1..Len(f) : offset_of(f, i) = offset /\ f[i].len = length}
    IN IF idx # {} THEN f[CHOOSE i \in idx : TRUE]
       ELSE LET avail == file_len(f) - offset
            IN Garbage(IF avail < 0 THEN 0 ELSE IF avail < length THEN avail ELSE length)

\* serde_json::from_reader: the bytes must be exactly one encoded Command
from_reader(bytes) ==
    IF bytes.type \in {"Set", "Remove"}
    THEN [ok |-> TRUE, command |-> [type |-> bytes.type, key |-> bytes.key, value |-> bytes.value]]
    ELSE [ok |-> FALSE, command |-> CommandRemove("")]

\* ------------------------------------------------------- the index map
Put(m, k, x) == [j \in DOMAIN m \cup {k} |-> IF j = k THEN x ELSE m[j]]
Del(m, k) == [j \in DOMAIN m \ {k} |-> m[j]]
EmptyMap == [j \in {} |-> 0]

CommandMetaData(file_number, offset, length) ==
    [file_number |-> file_number, offset |-> offset, length |-> length]

\* BTreeMap::insert(..).map(|md| md.length).unwrap_or(0)
MutOldLengthZero(index_map, key) == 0

old_length(index_map, key) ==
    IF key \in DOMAIN index_map THEN index_map[key].length ELSE 0

\* --------------------------------------------------------------- files
\* sort_file_by_number: the segment ids of the directory, ascending
RECURSIVE sorted_seq(_)
sorted_seq(S) ==
    IF S = {} THEN <<>>
    ELSE LET m == CHOOSE m \in S : \A n \in S : m <= n
         IN <<m>> \o sorted_seq(S \ {m})

sort_file_by_number(db) == sorted_seq(DOMAIN db)

\* BufferWriterWithPosition::new: the position is that of a file just opened
\* (0: an append-mode handle starts at 0 whatever the size of the file)
writer_new(file_num) == [file_num |-> file_num, position |-> 0]

\* new_file: create the file when it is absent, register a reader for it,
\* return the writer
MutNewFileNoReader(db, file_num, readers) ==
    [db |-> IF file_num \in DOMAIN db THEN db
            ELSE [n \in DOMAIN db \cup {file_num} |-> IF n = file_num THEN <<>> ELSE db[n]],
     readers |-> readers,
     writer |-> writer_new(file_num)]

new_file(db, file_num, readers) ==
    [db |-> IF file_num \in DOMAIN db THEN db
            ELSE [n \in DOMAIN db \cup {file_num} |-> IF n = file_num THEN <<>> ELSE db[n]],
     readers |-> readers \cup {file_num},
     writer |-> writer_new(file_num)]

\* serde_json::to_writer(&mut writer, &command) followed by the flush: the
\* encoded bytes go to the end of the writer's file, its position advances
MutWriterKeepsPosition(s, command) ==
    [s EXCEPT !.db = [@ EXCEPT ![s.writer.file_num] = Append(@, encode(command))]]

to_writer(s, command) ==
    LET rec == encode(command)
    IN [s EXCEPT !.db = [@ EXCEPT ![s.writer.file_num] = Append(@, rec)],
                 !.writer = [@ EXCEPT !.position = @ + rec.len]]

\* ------------------------------------------------------------- compact
\* the readers whose segment compact() deletes
MutFilesKeepAll(readers, compact_file_num) == {}

MutFilesUpTo(readers, compact_file_num) ==
    {file_number \in readers : file_number <= compact_file_num}

MutFilesFinalizedOnly(readers, compact_file_num) ==
    {file_number \in readers : file_number < compact_file_num - 1}

files_to_delete(readers, compact_file_num) ==
    {file_number \in readers : file_number < compact_file_num}

\* prev_offset = compact_writer.position()
MutOffsetStuck(prev_offset, position) == prev_offset

MutOffsetOverlaps(prev_offset, position) == position - 1

next_prev_offset(prev_offset, position) == position

\* one turn of the copy loop, for the entry of `key`
copy_entry(acc, key, compact_file_num, readers) ==
    LET md == acc.index_map[key]
    IN IF acc.res # Ok THEN acc
       ELSE IF md.file_number \notin readers THEN [acc EXCEPT !.res = Panic]
       ELSE LET src == IF md.file_number \in DOMAIN acc.db
                       THEN acc.db[md.file_number] ELSE <<>>
                bytes == take(src, md.offset, md.length)
                position == acc.position + bytes.len
            IN [db |-> IF bytes.len = 0 THEN acc.db
                       ELSE [acc.db EXCEPT ![compact_file_num] = Append(@, bytes)],
                index_map |-> [acc.index_map EXCEPT ![key] =
                                 CommandMetaData(compact_file_num, acc.prev_offset,
                                                 position - acc.prev_offset)],
                position |-> position,
                prev_offset |-> next_prev_offset(acc.prev_offset, position),
                res |-> Ok]

\* the copy loop over index_map.values_mut(), in key order
RECURSIVE copy_loop(_, _, _, _)
copy_loop(acc, ks, compact_file_num, readers) ==
    IF ks = <<>> THEN acc
    ELSE copy_loop(copy_entry(acc, Head(ks), compact_file_num, readers),
                   Tail(ks), compact_file_num, readers)

\* the keys of an index map in BTreeMap order
index_keys(index_map) == SelectSeq(KeySeq, LAMBDA k : k \in DOMAIN index_map)

\* KVStore::compact
compact(s) ==
    LET compact_file_num == s.current_file_num + 1
        nf == new_file(s.db, compact_file_num, s.readers)
        copied == copy_loop([db |-> nf.db, index_map |-> s.index_map,
                             position |-> nf.writer.position, prev_offset |-> 0,
                             res |-> Ok],
                            index_keys(s.index_map), compact_file_num, nf.readers)
        file_num_vec == files_to_delete(nf.readers, compact_file_num)
        kept == [n \in DOMAIN copied.db \ file_num_vec |-> copied.db[n]]
        current == s.current_file_num + 2
        nw == new_file(kept, current, nf.readers \ file_num_vec)
    IN IF copied.res # Ok
       THEN [s |-> [s EXCEPT !.db = copied.db, !.readers = nf.readers,
                             !.index_map = copied.index_map],
             res |-> copied.res]
       ELSE [s |-> [db |-> nw.db, readers |-> nw.readers, writer |-> nw.writer,
                    current_file_num |-> current, index_map |-> copied.index_map,
                    uncompacted |-> 0],
             res |-> Ok]

\* ----------------------------------------------------------------- set
\* if self.uncompacted > COMPACTION_THRESHOLD
MutCompactNever(uncompacted) == FALSE

MutCompactAtThreshold(uncompacted) == uncompacted >= COMPACTION_THRESHOLD

need_compact(uncompacted) == uncompacted > COMPACTION_THRESHOLD

\* the Location set() stores for the record it has just written
MutLocationAtEnd(file_number, prev_pos, position) ==
    CommandMetaData(file_number, position, position - prev_pos)

set_location(file_number, prev_pos, position) ==
    CommandMetaData(file_number, prev_pos, position - prev_pos)

\* set() up to and including the flush: append the record, update the index
\* and the stale-byte counter
set_append(s, key, value) ==
    LET command == CommandSet(key, value)
        prev_pos == s.writer.position
        w == to_writer(s, command)
    IN [w EXCEPT !.index_map = Put(@, key, set_location(s.current_file_num, prev_pos,
                                                          w.writer.position)),
                 !.uncompacted = @ + old_length(s.index_map, key)]

\* KVStore::set
set(s, key, value) ==
    LET s1 == set_append(s, key, value)
    IN IF need_compact(s1.uncompacted) THEN compact(s1) ELSE [s |-> s1, res |-> Ok]

\* ----------------------------------------------------------------- get
\* KVStore::get
get(s, key) ==
    IF key \in DOMAIN s.index_map
    THEN LET md == s.index_map[key]
         IN IF md.file_number \notin s.readers THEN Panic
            ELSE LET src == IF md.file_number \in DOMAIN s.db
                            THEN s.db[md.file_number] ELSE <<>>
                     decoded == from_reader(take(src, md.offset, md.length))
                 IN IF ~decoded.ok THEN SerdeError
                    ELSE IF decoded.command.type = "Set" THEN Some(decoded.command.value)
                    ELSE UnexpectedCommandType
    ELSE None

\* the engine after get(&mut self, key): the call borrows the reader of the
\* entry's segment (readers.get_mut), seeks it to the entry's offset and
\* reads; where a reader stands is no part of this model, because every read
\* begins with a seek from the start of the file
MutGetTakesReader(s, key) ==
    IF key \in DOMAIN s.index_map
    THEN [s EXCEPT !.readers = @ \ {s.index_map[key].file_number}]
    ELSE s

after_get(s, key) == s

\* -------------------------------------------------------------- remove
\* self.index_map.remove(&key)
MutRemoveKeepsEntry(index_map, key) == index_map

remove_entry(index_map, key) == Del(index_map, key)

\* self.uncompacted += data_length, the length of the Remove record
MutRemoveForgetsRecord(uncompacted, data_length) == uncompacted

remove_stale(uncompacted, data_length) == uncompacted + data_length

\* remove() of a key of the index, up to and including the flush
remove_append(s, key) ==
    LET s0 == [s EXCEPT !.uncompacted = @ + old_length(s.index_map, key),
                        !.index_map = remove_entry(@, key)]
        prev_pos == s0.writer.position
        w == to_writer(s0, CommandRemove(key))
    IN [w EXCEPT !.uncompacted = remove_stale(@, w.writer.position - prev_pos)]

\* if self.index_map.contains_key(&key)
MutContainsAlways(index_map, key) == TRUE

contains_key(index_map, key) == key \in DOMAIN index_map

\* KVStore::remove
remove(s, key) ==
    IF contains_key(s.index_map, key)
    THEN LET s1 == remove_append(s, key)
         IN IF need_compact(s1.uncompacted) THEN compact(s1) ELSE [s |-> s1, res |-> Ok]
    ELSE [s |-> s, res |-> KeyNotFound]

\* ---------------------------------------------------------------- open
\* the Location replay stores for a Set record
MutReplayOffset(file_num, old_position, new_position) ==
    CommandMetaData(file_num, new_position, new_position - old_position)

MutReplayLength(file_num, old_position, new_position) ==
    CommandMetaData(file_num, old_position, new_position)

replay_location(file_num, old_position, new_position) ==
    CommandMetaData(file_num, old_position, new_position - old_position)

\* what replay does to the index on a Remove record
MutReplayIgnoresRemove(index_map, key) == index_map

replay_remove(index_map, key) == Del(index_map, key)

\* replay of a Remove record: the removed entry's length and the length of
\* the Remove record itself are stale
MutReplaySkipsTombstone(uncompacted, data_in_bytes, record_len) ==
    uncompacted + data_in_bytes

replay_remove_stale(uncompacted, data_in_bytes, record_len) ==
    uncompacted + data_in_bytes + record_len

\* load_uncompacted_data, from the i-th record of the file
RECURSIVE load_from(_, _, _, _, _, _)
load_from(file_num, f, i, old_position, index_map, uncompacted) ==
    IF i > Len(f) THEN [ok |-> TRUE, index_map |-> index_map, uncompacted |-> uncompacted]
    ELSE LET new_position == old_position + f[i].len
             cmd == from_reader(f[i])
         IN IF ~cmd.ok
            THEN [ok |-> FALSE, index_map |-> index_map, uncompacted |-> uncompacted]
            ELSE IF cmd.command.type = "Set"
            THEN load_from(file_num, f, i + 1, new_position,
                           Put(index_map, cmd.command.key,
                               replay_location(file_num, old_position, new_position)),
                           uncompacted + old_length(index_map, cmd.command.key))
            ELSE load_from(file_num, f, i + 1, new_position,
                           replay_remove(index_map, cmd.command.key),
                           replay_remove_stale(uncompacted,
                                               old_length(index_map, cmd.command.key),
                                               new_position - old_position))

load_uncompacted_data(file_num, f, index_map) == load_from(file_num, f, 1, 0, index_map, 0)

\* the loop of open() over the existing segments, ascending
RECURSIVE load_all(_, _, _)
load_all(db, list, acc) ==
    IF list = <<>> \/ ~acc.ok THEN acc
    ELSE LET file_num == Head(list)
             r == load_uncompacted_data(file_num, db[file_num], acc.index_map)
         IN load_all(db, Tail(list),
                     [ok |-> r.ok, index_map |-> r.index_map,
                      uncompacted |-> acc.uncompacted + r.uncompacted,
                      readers |-> acc.readers \cup {file_num}])

\* existing_file_num_list.last().unwrap_or(&0) + 1
MutFirstFileNumCount(list) == Len(list) + 1

MutFirstFileNumLast(list) == IF list = <<>> THEN 1 ELSE list[Len(list)]

MutFirstFileNumFirst(list) == IF list = <<>> THEN 1 ELSE list[1] + 1

first_file_num(list) == IF list = <<>> THEN 1 ELSE list[Len(list)] + 1

\* KVStore::open on the directory `db`
open(db) ==
    LET existing_file_num_list == sort_file_by_number(db)
        loaded == load_all(db, existing_file_num_list,
                           [ok |-> TRUE, index_map |-> EmptyMap, uncompacted |-> 0,
                            readers |-> {}])
        current_file_num == first_file_num(existing_file_num_list)
        nf == new_file(db, current_file_num, loaded.readers)
    IN [s |-> [db |-> IF loaded.ok THEN nf.db ELSE db,
               readers |-> nf.readers, writer |-> nf.writer,
               current_file_num |-> current_file_num,
               index_map |-> loaded.index_map, uncompacted |-> loaded.uncompacted],
        res |-> IF loaded.ok THEN Ok ELSE SerdeError]

\* ---------------------------------------------------------------- sled
\* value.into_bytes() and String::from_utf8(bytes)
into_bytes(value) == [utf8 |-> value]
from_utf8(bytes) == bytes.utf8

\* SledKVStore::set
sled_set(tree, key, value) == [tree |-> Put(tree, key, into_bytes(value)), res |-> Ok]

\* SledKVStore::get
sled_get(tree, key) ==
    IF key \in DOMAIN tree THEN Some(from_utf8(tree[key])) ELSE None

\* SledKVStore::remove
sled_remove(tree, key) ==
    IF key \in DOMAIN tree THEN [tree |-> Del(tree, key), res |-> Ok]
    ELSE [tree |-> tree, res |-> KeyNotFound]

\* ------------------------------------------------------ the state machine
\* -------------------------------------------------------------- server
\* Request::Get { key }, Request::Set { key, value }, Request::Remove { key }
RequestGet(key) == [type |-> "Get", key |-> key, value |-> NoValue]
RequestSet(key, value) == [type |-> "Set", key |-> key, value |-> value]
RequestRemove(key) == [type |-> "Remove", key |-> key, value |-> NoValue]
\* bytes that Request::deserialize rejects
BadRequest == [type |-> "Bad", key |-> "", value |-> NoValue]

Requests ==
    {RequestGet(key) : key \in Keys} \cup {RequestRemove(key) : key \in Keys}
    \cup {RequestSet(key, value) : key \in Keys, value \in Values} \cup {BadRequest}

\* Response::Ok(Option<String>) and Response::Err(String)
ResponseOk(value) == [type |-> "Ok", value |-> value, message |-> ""]
ResponseErr(message) == [type |-> "Err", value |-> None, message |-> message]
\* nothing was written to the stream
NoResponse == [type |-> "", value |-> None, message |-> ""]
\* the engine was not called
NoCall == R("", NoValue)

\* format!("{}", err): the Display of KVStoreError
display(err) ==
    CASE err.tag = "KeyNotFound" -> "Key not found"
      [] err.tag = "UnexpectedCommandType" -> "Unexpected command type"
      [] err.tag = "Serde" -> "serde_json error: "
      [] OTHER -> ""

\* an Err of the engine leaves serve() with `?` and nothing is written
MutResponsePropagates(request, result) ==
    IF result.tag \in {"Ok", "None", "Some"}
    THEN ResponseOk(IF request.type = "Get" THEN result ELSE None)
    ELSE NoResponse

\* the match of serve() on the request and on what the engine returned
response(request, result) ==
    IF request.type = "Get"
    THEN IF result.tag \in {"None", "Some"} THEN ResponseOk(result)
         ELSE ResponseErr(display(result))
    ELSE IF result = Ok THEN ResponseOk(None)
         ELSE ResponseErr(display(result))

\* a handler thread per connection: the listener goes on while one is served
MutAcceptWhileServing(serving) == TRUE

\* `for stream in listener.incoming()`: the loop takes the next connection
\* when serve() of the one before has returned
can_accept(serving) == serving = {}

\* Server::new(engine), listening
ServerNew ==
    [requests |-> <<>>, accepted |-> <<>>, serving |-> {}, calls |-> <<>>,
     log |-> EmptyMap, listening |-> TRUE]

\* ----------------------------------------------------------------- kvs
\* the subcommands of the kvs program
Subcommands == {"set", "get", "rm"}

\* a line of standard output: a fixed text, or a value
PrintText(text) == [text |-> text, value |-> NoValue]
PrintValue(value) == [text |-> "", value |-> value]

\* process::exit(code): the status the parent sees is the low byte
exit(code) == code % 256

\* the status of a main() that returns Err
MainErr == 1

\* if let Err(KVStoreError::KeyNotFound) = db.remove(..) { ..; process::exit(-1) }
MutRmExitZero(result) == 0

rm_status(result) == IF result = KeyNotFound THEN exit(-1) ELSE 0

\* what main() prints and the status it ends with, for the result of the
\* engine call of subcommand `cmd`
report(cmd, result) ==
    CASE cmd = "set" ->
           IF result # Ok
           THEN [stdout |-> <<PrintText(result.tag)>>, status |-> exit(-1)]
           ELSE [stdout |-> <<>>, status |-> 0]
      [] cmd = "get" ->
           [stdout |-> IF result.tag = "Some" THEN <<PrintValue(result.value)>>
                       ELSE IF result = None THEN <<PrintText("Key not found")>>
                       ELSE <<PrintText(result.tag)>>,
            status |-> 0]
      [] cmd = "rm" ->
           [stdout |-> IF result = KeyNotFound
                       THEN <<PrintText("Key not found")>> ELSE <<>>,
            status |-> rm_status(result)]

\* main() of the kvs program run in directory `dir`: the directory it leaves,
\* what the engine call returned, what it printed and its exit status
main(dir, cmd, key, value) ==
    LET o == open(dir)
        r == CASE cmd = "set" -> set(o.s, key, value)
               [] cmd = "get" -> [s |-> after_get(o.s, key), res |-> get(o.s, key)]
               [] cmd = "rm" -> remove(o.s, key)
    IN IF o.res # Ok
       THEN [db |-> o.s.db, result |-> NoCall, stdout |-> <<>>, status |-> MainErr]
       ELSE [db |-> r.s.db, result |-> r.res, stdout |-> report(cmd, r.res).stdout,
             status |-> report(cmd, r.res).status]

\* no run so far
NoRun == [cmd |-> "", key |-> "", result |-> NoCall, stdout |-> <<>>, status |-> 0]

VARIABLES
    db,                \* the data directory: segment id -> contents of <id>.log
    engine,            \* "open", "dropped", "crashed" or "failed" (open() returned Err)
    readers,           \* KVStore.readers: the segment ids that have a reader
    writer,            \* KVStore.writer: its file and its position
    current_file_num,  \* KVStore.current_file_num
    index_map,         \* KVStore.index_map: key -> CommandMetaData
    uncompacted,       \* KVStore.uncompacted
    tree,              \* the sled tree of a SledKVStore given the same calls
    plain,             \* a KVStore given the same calls whose threshold is never exceeded
    last,              \* the last call and what each engine returned
    pre,               \* what held when the last compaction began, or at the last drop
    removed,           \* the keys whose latest successful set/remove is a remove
    crossed,           \* number of set/remove calls that compacted inline
    hist,              \* the segment ids ever created, and those ever seen finalized
    steps,             \* number of state-changing calls so far
    srv,               \* the Server that owns the engine: its connections and answers
    cli                \* the last run of the kvs command line program

vars == <<db, engine, readers, writer, current_file_num, index_map, uncompacted,
          tree, plain, last, pre, removed, crossed, hist, steps, srv, cli>>

Self == [db |-> db, readers |-> readers, writer |-> writer,
         current_file_num |-> current_file_num, index_map |-> index_map,
         uncompacted |-> uncompacted]

Install(s) ==
    /\ db' = s.db
    /\ readers' = s.readers
    /\ writer' = s.writer
    /\ current_file_num' = s.current_file_num
    /\ index_map' = s.index_map
    /\ uncompacted' = s.uncompacted

\* the handles and the index of an engine that is gone
Gone ==
    /\ readers' = {}
    /\ writer' = writer_new(0)
    /\ current_file_num' = 0
    /\ index_map' = EmptyMap
    /\ uncompacted' = 0

EmptyDir == [n \in {} |-> <<>>]

\* the segments of a directory other than the active one of an open engine
finalized_of(dir, status, active) == DOMAIN dir \ (IF status = "open" THEN {active} ELSE {})

\* bookkeeping of the segment ids, at the end of every step
HistNext ==
    hist' = [ever |-> hist.ever \cup DOMAIN db',
             finalized |-> hist.finalized \cup finalized_of(db', engine', current_file_num')]

GetAll(s) == [k \in Keys |-> get(s, k)]

Snapshot(s) == [gets |-> GetAll(s), size |-> dir_size(s.db), keys |-> DOMAIN s.index_map,
                index_map |-> s.index_map, current_file_num |-> s.current_file_num,
                uncompacted |-> s.uncompacted, readers |-> s.readers,
                files |-> DOMAIN s.db]

Call(op, key, value, res, sled, pl, compacted, after) ==
    [op |-> op, key |-> key, value |-> value, res |-> res, sled |-> sled, plain |-> pl,
     compacted |-> compacted, after |-> after]

\* the same calls on an engine whose stale bytes never exceed the threshold
plain_set(s, key, value) == [s |-> set_append(s, key, value), res |-> Ok]

plain_remove(s, key) ==
    IF contains_key(s.index_map, key)
    THEN [s |-> remove_append(s, key), res |-> Ok]
    ELSE [s |-> s, res |-> KeyNotFound]

Init ==
    LET o == open(EmptyDir)
    IN /\ db = o.s.db
       /\ engine = "open"
       /\ readers = o.s.readers
       /\ writer = o.s.writer
       /\ current_file_num = o.s.current_file_num
       /\ index_map = o.s.index_map
       /\ uncompacted = o.s.uncompacted
       /\ tree = EmptyMap
       /\ plain = o.s
       /\ last = Call("open", "", NoValue, o.res, Ok, o.res, FALSE, "")
       /\ pre = Snapshot(o.s)
       /\ removed = {}
       /\ crossed = 0
       /\ hist = [ever |-> DOMAIN o.s.db,
                  finalized |-> finalized_of(o.s.db, "open", o.s.current_file_num)]
       /\ steps = 0
       /\ srv = ServerNew
       /\ cli = NoRun

Set(key, value) ==
    /\ engine = "open"
    /\ steps < MaxOps
    /\ LET s1 == set_append(Self, key, value)
           r == set(Self, key, value)
           sl == sled_set(tree, key, value)
           p == plain_set(plain, key, value)
       IN /\ Install(r.s)
          /\ tree' = sl.tree
          /\ plain' = p.s
          /\ last' = Call("set", key, value, r.res, sl.res, p.res,
                          need_compact(s1.uncompacted), "")
          /\ pre' = IF need_compact(s1.uncompacted) THEN Snapshot(s1) ELSE pre
          /\ removed' = IF r.res = Ok THEN removed \ {key} ELSE removed
          /\ crossed' = IF need_compact(s1.uncompacted) THEN crossed + 1 ELSE crossed
    /\ steps' = steps + 1
    /\ UNCHANGED engine
    /\ HistNext

Get(key) ==
    /\ engine = "open"
    /\ last' = Call("get", key, NoValue, get(Self, key), sled_get(tree, key),
                    get(plain, key), FALSE, "")
    /\ Install(after_get(Self, key))
    /\ plain' = after_get(plain, key)
    /\ UNCHANGED <<engine, tree, pre, removed, crossed, steps>>
    /\ HistNext

Remove(key) ==
    /\ engine = "open"
    /\ steps < MaxOps
    /\ LET hit == contains_key(index_map, key)
           s1 == IF hit THEN remove_append(Self, key) ELSE Self
           r == remove(Self, key)
           sl == sled_remove(tree, key)
           p == plain_remove(plain, key)
           compacted == hit /\ need_compact(s1.uncompacted)
       IN /\ Install(r.s)
          /\ tree' = sl.tree
          /\ plain' = p.s
          /\ last' = Call("remove", key, NoValue, r.res, sl.res, p.res, compacted, "")
          /\ pre' = IF compacted THEN Snapshot(s1) ELSE pre
          /\ removed' = IF r.res = Ok THEN removed \cup {key} ELSE removed
          /\ crossed' = IF compacted THEN crossed + 1 ELSE crossed
    /\ steps' = steps + 1
    /\ UNCHANGED engine
    /\ HistNext

\* a direct call of the public compact()
Compact ==
    /\ engine = "open"
    /\ steps < MaxOps
    /\ LET r == compact(Self)
       IN /\ Install(r.s)
          /\ last' = Call("compact", "", NoValue, r.res, Ok, Ok, TRUE, "")
    /\ pre' = Snapshot(Self)
    /\ steps' = steps + 1
    /\ UNCHANGED <<engine, tree, plain, removed, crossed>>
    /\ HistNext

\* the engine is dropped; the directory stays
Drop ==
    /\ engine = "open"
    /\ steps < MaxOps
    /\ engine' = "dropped"
    /\ Gone
    /\ last' = Call("drop", "", NoValue, Ok, Ok, Ok, FALSE, "")
    /\ pre' = Snapshot(Self)
    /\ steps' = steps + 1
    /\ UNCHANGED <<db, tree, plain, removed, crossed>>
    /\ HistNext

\* KVStore::open on the directory of an engine that was dropped or that crashed
Open ==
    /\ engine \in {"dropped", "crashed"}
    /\ LET r == open(db)
           p == open(plain.db)
       IN /\ IF r.res = Ok
             THEN Install(r.s) /\ engine' = "open"
             ELSE Gone /\ engine' = "failed" /\ UNCHANGED db
          /\ plain' = p.s
          /\ last' = Call("open", "", NoValue, r.res, Ok, p.res, FALSE, engine)
    /\ UNCHANGED <<tree, pre, removed, crossed, steps>>
    /\ HistNext

\* The directories a stop of the process in the middle of compact(s) can
\* leave behind: the compacted segment holds the first j copies, whole, or
\* those and a cut piece of the next one (the bytes the BufWriter has passed on
\* so far); once it is flushed, any subset of the older segments is deleted
\* (the HashMap of readers yields them in no particular order); at last the
\* fresh active segment is created.
cut_points(len) == {1, len - 1}

crash_points(s) ==
    LET compact_file_num == s.current_file_num + 1
        nf == new_file(s.db, compact_file_num, s.readers)
        ks == index_keys(s.index_map)
        acc0 == [db |-> nf.db, index_map |-> s.index_map,
                 position |-> nf.writer.position, prev_offset |-> 0, res |-> Ok]
        after(j) == copy_loop(acc0, SubSeq(ks, 1, j), compact_file_num, nf.readers).db
        next_bytes(j) == LET md == s.index_map[ks[j + 1]]
                         IN take(s.db[md.file_number], md.offset, md.length)
        cut(j, len) == [after(j) EXCEPT ![compact_file_num] =
                           Append(@, truncated(next_bytes(j), len))]
        full == after(Len(ks))
        file_num_vec == files_to_delete(nf.readers, compact_file_num)
        without(D) == [n \in DOMAIN full \ D |-> full[n]]
    IN {s.db}
       \cup {after(j) : j \in 0..Len(ks)}
       \cup UNION {{cut(j, len) : len \in cut_points(next_bytes(j).len)} : j \in 0..(Len(ks) - 1)}
       \cup {without(D) : D \in SUBSET file_num_vec}
       \cup {new_file(without(file_num_vec), s.current_file_num + 2, {}).db}

\* the process stops in a compact() that began in state s; a run is followed
\* up to its first stop, so after the recovery only reads follow
Crash(s, op, key, value) ==
    /\ \E dir \in crash_points(s) : db' = dir
    /\ engine' = "crashed"
    /\ Gone
    /\ last' = Call(op, key, value, Panic, Ok, Ok, TRUE, "")
    /\ pre' = Snapshot(s)
    /\ steps' = MaxOps
    /\ UNCHANGED <<tree, plain, removed, crossed>>
    /\ HistNext

\* in a direct call of compact()
CompactCrash ==
    /\ engine = "open"
    /\ steps < MaxOps
    /\ Crash(Self, "compact-crash", "", NoValue)

\* in the compaction a set() runs inline
SetCrash(key, value) ==
    /\ engine = "open"
    /\ steps < MaxOps
    /\ need_compact(set_append(Self, key, value).uncompacted)
    /\ Crash(set_append(Self, key, value), "set-crash", key, value)

\* in the compaction a remove() runs inline
RemoveCrash(key) ==
    /\ engine = "open"
    /\ steps < MaxOps
    /\ contains_key(index_map, key)
    /\ need_compact(remove_append(Self, key).uncompacted)
    /\ Crash(remove_append(Self, key), "remove-crash", key, NoValue)

\* the process stops while the bytes of one record are on their way to the
\* active segment (serde_json::to_writer into the BufWriter, then flush): a
\* cut piece of the record is the tail of the segment
AppendCrash(op, command) ==
    /\ engine = "open"
    /\ steps < MaxOps
    /\ \E len \in cut_points(encode(command).len) :
          db' = [db EXCEPT ![writer.file_num] = Append(@, truncated(encode(command), len))]
    /\ engine' = "crashed"
    /\ Gone
    /\ last' = Call(op, command.key, command.value, Panic, Ok, Ok, FALSE, "")
    /\ pre' = Snapshot(Self)
    /\ steps' = MaxOps
    /\ UNCHANGED <<tree, plain, removed, crossed>>
    /\ HistNext

\* in the append of a set()
SetAppendCrash(key, value) == AppendCrash("set-append-crash", CommandSet(key, value))

\* in the append of a remove()
RemoveAppendCrash(key) ==
    /\ contains_key(index_map, key)
    /\ AppendCrash("remove-append-crash", CommandRemove(key))

\* a program that holds the engine itself calls it: no server, no kvs process
Next ==
    \/ \E key \in Keys, value \in Values : Set(key, value) /\ UNCHANGED <<srv, cli>>
    \/ \E key \in Keys : Get(key) /\ UNCHANGED <<srv, cli>>
    \/ \E key \in Keys : Remove(key) /\ UNCHANGED <<srv, cli>>
    \/ Compact /\ UNCHANGED <<srv, cli>>
    \/ Drop /\ UNCHANGED <<srv, cli>>
    \/ Open /\ UNCHANGED <<srv, cli>>

Spec == Init /\ [][Next]_vars

\* the same with stops of the process in the middle of a compaction
NextCrash ==
    \/ Next
    \/ CompactCrash /\ UNCHANGED <<srv, cli>>
    \/ \E key \in Keys, value \in Values : SetCrash(key, value) /\ UNCHANGED <<srv, cli>>
    \/ \E key \in Keys : RemoveCrash(key) /\ UNCHANGED <<srv, cli>>
    \/ \E key \in Keys, value \in Values : SetAppendCrash(key, value) /\ UNCHANGED <<srv, cli>>
    \/ \E key \in Keys : RemoveAppendCrash(key) /\ UNCHANGED <<srv, cli>>

SpecCrash == Init /\ [][NextCrash]_vars

\* ------------------------------------------------ failing I/O steps
\* set() whose flush fails (`self.writer.flush()?`): the record is in the
\* BufWriter, not in the file; the index, the counter and the writer's
\* position are already updated
set_flush_fail(s, key, value) == [set_append(s, key, value) EXCEPT !.db = s.db]

\* remove() whose flush fails: the entry is gone from the index, the Remove
\* record is not in the file
remove_flush_fail(s, key) == [remove_append(s, key) EXCEPT !.db = s.db]

\* get() whose seek or read fails
get_io_fail(s, key) == IF key \in DOMAIN s.index_map THEN IoError ELSE None

\* The engines a compact(s) leaves behind when one of its I/O steps fails:
\* the creation of the compacted segment (nothing has changed); the copy of
\* entry j+1 or the flush after the last copy (the first j entries of the
\* index point into the compacted segment, which holds their copies when the
\* drop of the local writer could flush them and nothing otherwise); the
\* deletion of a segment (its reader is dropped already, some other segments
\* are deleted); the creation of the new active segment (current_file_num is
\* advanced, the writer is the old one, the counter is not reset).
compact_io_fail(s) ==
    LET compact_file_num == s.current_file_num + 1
        nf == new_file(s.db, compact_file_num, s.readers)
        ks == index_keys(s.index_map)
        acc0 == [db |-> nf.db, index_map |-> s.index_map,
                 position |-> nf.writer.position, prev_offset |-> 0, res |-> Ok]
        after(j) == copy_loop(acc0, SubSeq(ks, 1, j), compact_file_num, nf.readers)
        full == after(Len(ks))
        file_num_vec == files_to_delete(nf.readers, compact_file_num)
        without(D) == [n \in DOMAIN full.db \ D |-> full.db[n]]
    IN {s}
       \cup UNION {{[s EXCEPT !.db = dir, !.readers = nf.readers,
                              !.index_map = after(j).index_map] :
                      dir \in {after(j).db, nf.db}} : j \in 0..Len(ks)}
       \cup UNION {{[s EXCEPT !.db = without(D), !.readers = nf.readers \ (D \cup {f}),
                              !.index_map = full.index_map] :
                      f \in file_num_vec \ D} : D \in SUBSET file_num_vec}
       \cup {[s EXCEPT !.db = without(file_num_vec),
                       !.readers = nf.readers \ file_num_vec,
                       !.index_map = full.index_map,
                       !.current_file_num = s.current_file_num + 2]}

\* an I/O step of call `op`, which began in state s, fails and the call
\* returns the error; a run is followed up to its first failure, so after it
\* only reads follow and what is left in the BufWriter stays there
IoFail(s, outcomes, op, key, value) ==
    /\ engine = "open"
    /\ steps < MaxOps
    /\ \E o \in outcomes : Install(o)
    /\ last' = Call(op, key, value, IoError, Ok, Ok, FALSE, "")
    /\ pre' = Snapshot(s)
    /\ steps' = MaxOps
    /\ UNCHANGED <<engine, tree, plain, removed, crossed>>
    /\ HistNext

\* set() returns Err(Io): from its flush, or from the compaction it runs
SetIoFail(key, value) ==
    LET s1 == set_append(Self, key, value)
    IN IoFail(Self,
              {set_flush_fail(Self, key, value)}
                \cup (IF need_compact(s1.uncompacted) THEN compact_io_fail(s1) ELSE {}),
              "set-io-fail", key, value)

\* remove() returns Err(Io)
RemoveIoFail(key) ==
    /\ contains_key(index_map, key)
    /\ LET s1 == remove_append(Self, key)
       IN IoFail(Self,
                 {remove_flush_fail(Self, key)}
                   \cup (IF need_compact(s1.uncompacted) THEN compact_io_fail(s1) ELSE {}),
                 "remove-io-fail", key, NoValue)

\* a direct compact() returns Err(Io)
CompactIoFail == IoFail(Self, compact_io_fail(Self), "compact-io-fail", "", NoValue)

NextIoFail ==
    \/ Next
    \/ \E key \in Keys, value \in Values : SetIoFail(key, value) /\ UNCHANGED <<srv, cli>>
    \/ \E key \in Keys : RemoveIoFail(key) /\ UNCHANGED <<srv, cli>>
    \/ CompactIoFail /\ UNCHANGED <<srv, cli>>

SpecIoFail == Init /\ [][NextIoFail]_vars

\* ------------------------------------------- calls around the threshold
\* a value with which the Set record of a one-character key is exactly
\* COMPACTION_THRESHOLD bytes long
EdgeValue == [ch |-> "y", n |-> COMPACTION_THRESHOLD - encode(CommandSet("a", NoValue)).len]

ThresholdValues == {[ch |-> "x", n |-> 1], EdgeValue}

\* set, get and remove with values that bring the stale-byte counter to the
\* threshold exactly and just over it
NextThreshold ==
    \/ \E key \in Keys, value \in ThresholdValues : Set(key, value) /\ UNCHANGED <<srv, cli>>
    \/ \E key \in Keys : Get(key) /\ UNCHANGED <<srv, cli>>
    \/ \E key \in Keys : Remove(key) /\ UNCHANGED <<srv, cli>>

SpecThreshold == Init /\ [][NextThreshold]_vars

\* ------------------------------------------------- the server's actions
\* a client connects and sends its request; the connection waits in the
\* listener's queue
Connect(request) ==
    /\ srv.listening
    /\ Len(srv.requests) < MaxConns
    /\ srv' = [srv EXCEPT !.requests = Append(@, request)]
    /\ UNCHANGED <<db, engine, readers, writer, current_file_num, index_map, uncompacted,
                   tree, plain, last, pre, removed, crossed, hist, steps, cli>>

\* listener.incoming() yields the next connection of the queue
Accept ==
    /\ srv.listening
    /\ can_accept(srv.serving)
    /\ Len(srv.accepted) < Len(srv.requests)
    /\ LET c == Len(srv.accepted) + 1
       IN srv' = [srv EXCEPT !.accepted = Append(@, c), !.serving = @ \cup {c}]
    /\ UNCHANGED <<db, engine, readers, writer, current_file_num, index_map, uncompacted,
                   tree, plain, last, pre, removed, crossed, hist, steps, cli>>

\* what serve() leaves behind for connection c: the call it made, the
\* response it wrote, and the stream released
served(c, request, result, resp) ==
    [srv EXCEPT !.serving = @ \ {c},
                !.calls = IF result = NoCall THEN @ ELSE Append(@, c),
                !.log = Put(@, c, [request |-> request, result |-> result,
                                   response |-> resp]),
                !.listening = result # Panic]

\* Server::serve on an accepted connection, and the return to the loop of
\* start(), which logs an Err of serve() and goes on
Serve(c) ==
    /\ c \in srv.serving
    /\ LET request == srv.requests[c]
       IN \/ /\ request.type = "Bad"
             /\ srv' = served(c, request, NoCall, NoResponse)
             /\ UNCHANGED <<db, engine, readers, writer, current_file_num, index_map,
                            uncompacted, tree, plain, last, pre, removed, crossed, hist,
                            steps>>
          \/ /\ request.type = "Get"
             /\ Get(request.key)
             /\ srv' = served(c, request, last'.res, response(request, last'.res))
          \/ /\ request.type = "Set"
             /\ Set(request.key, request.value)
             /\ srv' = served(c, request, last'.res, response(request, last'.res))
          \/ /\ request.type = "Remove"
             /\ Remove(request.key)
             /\ srv' = served(c, request, last'.res, response(request, last'.res))
    /\ UNCHANGED cli

NextServer ==
    \/ \E request \in Requests : Connect(request)
    \/ Accept
    \/ \E c \in 1..MaxConns : Serve(c)

SpecServer == Init /\ [][NextServer]_vars

\* ------------------------------------------------------ the kvs program
\* one run of `kvs set KEY VALUE`, `kvs get KEY` or `kvs rm KEY` in the data
\* directory, from the start of the process to its exit
Kvs(cmd, key, value) ==
    /\ engine = "dropped"
    /\ steps < MaxOps
    /\ LET m == main(db, cmd, key, value)
       IN /\ db' = m.db
          /\ cli' = [cmd |-> cmd, key |-> key, result |-> m.result, stdout |-> m.stdout,
                     status |-> m.status]
    /\ Gone
    /\ last' = Call("kvs", key, value, Ok, Ok, Ok, FALSE, "dropped")
    /\ pre' = Snapshot(open(db).s)
    /\ steps' = steps + 1
    /\ UNCHANGED <<engine, tree, plain, removed, crossed, srv>>
    /\ HistNext

\* The runs of main() in which an I/O step of the engine call fails: the
\* flush of set (process::exit(-1) then ends the process with the record
\* still in the BufWriter), the seek or read of get, the flush of remove
\* (main() goes on to its end, where the drop of the engine may or may not
\* get the Remove record into the file).
main_io_fail(dir, cmd, key, value) ==
    LET o == open(dir)
        result == IF cmd = "get" THEN get_io_fail(o.s, key) ELSE IoError
        dirs == IF cmd = "rm" THEN {o.s.db, remove_append(o.s, key).db} ELSE {o.s.db}
    IN {[db |-> d, result |-> result, stdout |-> report(cmd, result).stdout,
         status |-> report(cmd, result).status] : d \in dirs}

\* one run of the kvs program whose engine call returns Err(Io)
KvsIoFail(cmd, key, value) ==
    /\ engine = "dropped"
    /\ steps < MaxOps
    /\ open(db).res = Ok
    /\ cmd \in {"get", "rm"} => contains_key(open(db).s.index_map, key)
    /\ \E m \in main_io_fail(db, cmd, key, value) :
          /\ db' = m.db
          /\ cli' = [cmd |-> cmd, key |-> key, result |-> m.result, stdout |-> m.stdout,
                     status |-> m.status]
    /\ Gone
    /\ last' = Call("kvs-io-fail", key, value, Ok, Ok, Ok, FALSE, "dropped")
    /\ pre' = Snapshot(open(db).s)
    /\ steps' = steps + 1
    /\ UNCHANGED <<engine, tree, plain, removed, crossed, srv>>
    /\ HistNext

\* the library holder drops its engine, then only kvs processes run
NextCli ==
    \/ Drop /\ UNCHANGED <<srv, cli>>
    \/ \E key \in Keys, value \in Values : Kvs("set", key, value)
    \/ \E cmd \in Subcommands \ {"set"}, key \in Keys : Kvs(cmd, key, NoValue)

SpecCli == Init /\ [][NextCli]_vars

\* the same with runs whose engine call hits an I/O failure
NextCliIoFail ==
    \/ NextCli
    \/ \E key \in Keys, value \in Values : KvsIoFail("set", key, value)
    \/ \E cmd \in Subcommands \ {"set"}, key \in Keys : KvsIoFail(cmd, key, NoValue)

SpecCliIoFail == Init /\ [][NextCliIoFail]_vars

\* ---------------------------------------------------------------- claims
\* C1: when set(k, v) returns Ok, a get(k) issued right afterwards returns
\* Some(v), also when that set compacted inline before it returned.
SetThenGet ==
    (engine = "open" /\ last.op = "set" /\ last.res = Ok)
        => get(Self, last.key) = Some(last.value)

SetThenGetWitness ==
    /\ engine = "open" /\ last.op = "set" /\ last.res = Ok /\ last.compacted
    /\ Cardinality(DOMAIN index_map) = 2
    /\ get(Self, last.key) = Some(last.value)

\* C2: after remove(k) returned Ok, and until the next set(k, _), get(k)
\* returns None, also when the remove compacted inline.
RemoveThenGetNone ==
    engine = "open" => \A k \in removed : get(Self, k) = None

RemoveThenGetNoneWitness ==
    /\ engine = "open" /\ last.op = "remove" /\ last.res = Ok /\ last.compacted
    /\ last.key \in removed
    /\ get(Self, last.key) = None

\* C3: remove(k) of a key that is not in the index returns KeyNotFound and
\* leaves the segment files, the index, the stale-byte counter, the active
\* segment id, the readers and the writer as they were.
RemoveAbsentFails ==
    [][/\ (steps' # steps /\ last'.op = "remove" /\ last'.key \notin DOMAIN index_map)
            => (/\ last'.res = KeyNotFound
                /\ UNCHANGED <<db, index_map, uncompacted, current_file_num, readers, writer>>)
       /\ (steps' # steps /\ last'.op = "remove" /\ last'.key \notin DOMAIN tree)
            => (last'.sled = KeyNotFound /\ UNCHANGED tree)]_vars

RemoveAbsentFailsWitness ==
    /\ engine = "open" /\ last.op = "remove" /\ last.res = KeyNotFound
    /\ last.key \in removed

\* C4: every set/get/remove returns what the sled-backed engine, sled being
\* a plain key-to-value map, returns for the same sequence of calls.
BackendsAgree ==
    last.op \in {"set", "get", "remove"} => last.res = last.sled

BackendsAgreeWitness ==
    /\ last.op = "get" /\ last.res = last.sled /\ last.res.tag = "Some"
    /\ removed # {} /\ uncompacted > 0 /\ current_file_num > 1

\* C5: open() on the directory of a dropped engine answers every get as the
\* engine did just before it was dropped.
RecoveryFidelity ==
    (engine = "open" /\ last.op = "open" /\ last.after = "dropped")
        => GetAll(Self) = pre.gets

RecoveryFidelityWitness ==
    /\ engine = "open" /\ last.op = "open" /\ last.after = "dropped"
    /\ current_file_num >= 3
    /\ removed # {}
    /\ \E k \in Keys : get(Self, k).tag = "Some"
    /\ GetAll(Self) = pre.gets

\* C6: a compaction, called directly or inline, leaves the answer of get(k)
\* for every key, and the key set of the index, as they were when it began.
CompactionPreservesContent ==
    (engine = "open" /\ last.compacted /\ last.res = Ok)
        => (GetAll(Self) = pre.gets /\ DOMAIN index_map = pre.keys)

CompactionPreservesContentWitness ==
    /\ engine = "open" /\ last.compacted /\ last.res = Ok
    /\ Cardinality(DOMAIN index_map) = 2 /\ removed = {}
    /\ \E k \in Keys : pre.index_map[k].file_number # pre.current_file_num
    /\ GetAll(Self) = pre.gets

\* C7: the segment files take no more bytes after a compaction than they
\* took when it began.
CompactionNeverGrowsDisk ==
    (engine = "open" /\ last.compacted /\ last.res = Ok) => dir_size(db) <= pre.size

CompactionNeverGrowsDiskWitness ==
    /\ engine = "open" /\ last.compacted /\ last.res = Ok
    /\ index_map # EmptyMap
    /\ dir_size(db) < pre.size

\* C8: when the process stops anywhere in a compaction and the directory is
\* opened again, the engine that open() returns answers get(k), for every
\* key, as the engine did when the compaction began; a key removed before the
\* compaction stays removed.
CompactionCrashSafe ==
    (engine = "open" /\ last.op = "open" /\ last.after = "crashed")
        => GetAll(Self) = pre.gets

\* C9: every set/get/remove returns what an engine given the same calls,
\* whose stale bytes never exceed the threshold, returns.
CompactionTransparent ==
    (engine = "open" /\ last.op \in {"set", "get", "remove"}) => last.res = last.plain

CompactionTransparentWitness ==
    /\ engine = "open" /\ crossed >= 1
    /\ last.op = "get" /\ last.res.tag = "Some" /\ last.res = last.plain
    /\ Cardinality(DOMAIN plain.db) < Cardinality(DOMAIN db)

\* the places <<segment id, record number>> of the records of key k
places(dir, k) ==
    UNION {{<<n, i>> : i \in {j \in 1..Len(dir[n]) : dir[n][j].key = k}} : n \in DOMAIN dir}

\* the most recent of them: segments ascending, then the order in the segment
latest(dir, k) ==
    CHOOSE p \in places(dir, k) :
        \A q \in places(dir, k) : q[1] < p[1] \/ (q[1] = p[1] /\ q[2] <= p[2])

\* C10: a key is in the index if and only if its most recent record, segments
\* ascending and records in order, is a Set, and its Location is that record.
IndexInvariant ==
    engine = "open" =>
        \A k \in Keys :
            LET has == places(db, k) # {}
                p == latest(db, k)
            IN /\ k \in DOMAIN index_map <=> (has /\ db[p[1]][p[2]].type = "Set")
               /\ k \in DOMAIN index_map =>
                    index_map[k] = CommandMetaData(p[1], offset_of(db[p[1]], p[2]),
                                                   db[p[1]][p[2]].len)

IndexInvariantWitness ==
    /\ engine = "open" /\ last.op = "open" /\ last.after = "dropped"
    /\ Cardinality(DOMAIN db) >= 3
    /\ \E k \in Keys : k \in DOMAIN index_map /\ latest(db, k)[1] < current_file_num - 1
    /\ \E k \in Keys : /\ places(db, k) # {}
                       /\ db[latest(db, k)[1]][latest(db, k)[2]].type = "Remove"

\* C11: the byte range of every Location of the index lies in an existing
\* segment file and holds exactly one encoded Set record of that key, so
\* get returns Some or None, never UnexpectedCommandType or a Serde error.
LocationInvariant ==
    engine = "open" =>
        /\ \A k \in DOMAIN index_map :
             LET md == index_map[k]
             IN /\ md.file_number \in DOMAIN db
                /\ md.offset + md.length <= file_len(db[md.file_number])
                /\ take(db[md.file_number], md.offset, md.length)
                     = encode(CommandSet(k, take(db[md.file_number], md.offset, md.length).value))
        /\ \A k \in Keys : get(Self, k).tag = IF k \in DOMAIN index_map THEN "Some" ELSE "None"

LocationInvariantWitness ==
    /\ engine = "open" /\ last.op = "open" /\ last.after = "dropped"
    /\ Cardinality(DOMAIN index_map) = 2
    /\ index_map["a"].file_number # index_map["b"].file_number
    /\ \E k \in DOMAIN index_map : index_map[k].offset > 0

MaxId(S) == CHOOSE m \in S : \A n \in S : n <= m

\* the one writable segment is the active one, and it has the largest id
ActiveIsMax(status, w, active, dir) ==
    status = "open" =>
        (w.file_num = active /\ active \in DOMAIN dir /\ active = MaxId(DOMAIN dir))

\* C13: every segment that open() or compact() creates has an id above every
\* id ever created in the directory, and after every call the one writable
\* segment is the active one and has the largest id on disk.
SegmentIdsIncrease ==
    /\ ActiveIsMax(engine, writer, current_file_num, db)
    /\ [][/\ \A n \in DOMAIN db' \ DOMAIN db : \A m \in hist.ever : m < n
          /\ ActiveIsMax(engine', writer', current_file_num', db')]_vars

SegmentIdsIncreaseWitness ==
    /\ engine = "open" /\ last.op = "open" /\ last.after = "dropped"
    /\ Cardinality(hist.ever) >= 5
    /\ hist.ever \ DOMAIN db # {}
    /\ current_file_num = MaxId(hist.ever)

IsPrefix(f, g) == Len(f) <= Len(g) /\ SubSeq(g, 1, Len(f)) = f

\* C14: only the active segment of an open engine changes, and only by
\* appending; a segment once seen finalized keeps its bytes for good; a
\* segment disappears only in a compaction.
FinalizedImmutable ==
    [][\A n \in DOMAIN db :
         /\ n \in DOMAIN db' =>
              /\ IsPrefix(db[n], db'[n])
              /\ db'[n] # db[n] => (engine = "open" /\ n = current_file_num)
              /\ n \in hist.finalized => db'[n] = db[n]
         /\ n \notin DOMAIN db' =>
              (last'.compacted /\ last'.op \in {"set", "remove", "compact"})]_vars

FinalizedImmutableWitness ==
    /\ engine = "open" /\ last.op = "set" /\ ~last.compacted
    /\ hist.ever \ DOMAIN db # {}
    /\ \E n \in hist.finalized \cap DOMAIN db : db[n] # <<>>
    /\ db[current_file_num] # <<>>

\* the bytes of the live records: the lengths of the Locations of the index
RECURSIVE sum_lengths(_, _)
sum_lengths(index, ks) ==
    IF ks = <<>> THEN 0 ELSE index[Head(ks)].length + sum_lengths(index, Tail(ks))

live_bytes(index) == sum_lengths(index, index_keys(index))

\* C16: whenever set or remove returns Ok the segment files take at most the
\* bytes of the live records plus COMPACTION_THRESHOLD.
BoundedDiskGrowth ==
    (engine = "open" /\ last.op \in {"set", "remove"} /\ last.res = Ok)
        => dir_size(db) <= live_bytes(index_map) + COMPACTION_THRESHOLD

BoundedDiskGrowthWitness ==
    /\ engine = "open" /\ last.op = "set" /\ last.res = Ok /\ ~last.compacted
    /\ index_map # EmptyMap
    /\ dir_size(db) - live_bytes(index_map) >= BigLen
    /\ dir_size(db) <= live_bytes(index_map) + COMPACTION_THRESHOLD

\* C20: open() makes the active segment max existing id + 1, or 1 in an empty
\* directory: that file is new and empty, every segment has a reader, and no
\* segment that was there is changed or deleted.
OpenChoosesNextId ==
    /\ (current_file_num = 1 /\ DOMAIN db = {1} /\ db[1] = <<>> /\ readers = {1})
    /\ [][(engine \in {"dropped", "crashed"} /\ engine' = "open") =>
            LET new == MaxId(DOMAIN db) + 1
            IN /\ current_file_num' = new
               /\ writer'.file_num = new
               /\ DOMAIN db' = DOMAIN db \cup {new}
               /\ new \notin DOMAIN db
               /\ db'[new] = <<>>
               /\ readers' = DOMAIN db'
               /\ \A n \in DOMAIN db : db'[n] = db[n]]_vars

OpenChoosesNextIdWitness ==
    /\ engine = "open" /\ last.op = "open" /\ last.after = "dropped"
    /\ 1 \notin DOMAIN db
    /\ Cardinality(DOMAIN db) >= 3
    /\ \E n \in DOMAIN db : db[n] # <<>>
    /\ db[current_file_num] = <<>>

\* the directory holds a segment that ends in a cut piece of a record
TruncatedTail(dir) ==
    \E n \in DOMAIN dir : dir[n] # <<>> /\ dir[n][Len(dir[n])].type = "Truncated"

\* C12: when the most recently written segment ends with a partially written
\* record, because the process stopped in the middle of an append, open()
\* returns an engine instead of an error, and the index holds what the
\* complete records before the cut tail say (every get answers as it did
\* before the append began).
OpenToleratesTruncatedTail ==
    (last.op = "open" /\ last.after = "crashed" /\ TruncatedTail(db))
      => (engine = "open" /\ last.res = Ok /\ GetAll(Self) = pre.gets)

\* C15: get(k) leaves the index, the stale-byte counter, the active segment
\* id and the contents of every segment file unchanged, and a get(k) that
\* follows it with no set/remove/compact in between returns the same result,
\* for keys present and absent.
ReadsEffectFree ==
    [][(engine = "open" /\ last'.op = "get") =>
         /\ index_map' = index_map
         /\ uncompacted' = uncompacted
         /\ current_file_num' = current_file_num
         /\ db' = db
         /\ last'.res = get(Self, last'.key)
         /\ \A k \in Keys :
              get([db |-> db', readers |-> readers', writer |-> writer',
                   current_file_num |-> current_file_num', index_map |-> index_map',
                   uncompacted |-> uncompacted'], k) = get(Self, k)]_vars

ReadsEffectFreeWitness ==
    /\ engine = "open" /\ last.op = "get"
    /\ last.res.tag = "Some"
    /\ index_map[last.key].file_number # current_file_num
    /\ \E k \in removed : get(Self, k) = None

\* the engine call a valid request stands for
call(s, request) ==
    CASE request.type = "Get" ->
           [s |-> after_get(s, request.key), res |-> get(s, request.key)]
      [] request.type = "Set" -> set(s, request.key, request.value)
      [] request.type = "Remove" -> remove(s, request.key)

\* the engine and the results after the calls of `requests`, one after another
RECURSIVE replay(_, _, _)
replay(s, requests, results) ==
    IF requests = <<>> THEN [s |-> s, results |-> results]
    ELSE LET r == call(s, Head(requests))
         IN replay(r.s, Tail(requests), Append(results, r.res))

\* C17: the server makes at most one engine call per accepted connection and
\* finishes the request/response cycle of a connection before it accepts the
\* next one: at most one connection is in service, the engine is called in
\* the order in which the connections were accepted, and the engine and the
\* results are those of that sequence of calls made one after another.
EngineAccessSerialized ==
    /\ Cardinality(srv.serving) <= 1
    /\ \A i \in 1..(Len(srv.accepted) - 1) :
         srv.accepted[i] \in DOMAIN srv.log /\ srv.accepted[i] \notin srv.serving
    /\ \A i, j \in DOMAIN srv.calls : i # j => srv.calls[i] # srv.calls[j]
    /\ srv.calls = SelectSeq(srv.accepted,
                             LAMBDA c : c \in DOMAIN srv.log /\ srv.log[c].result # NoCall)
    /\ LET r == replay(open(EmptyDir).s,
                       [i \in DOMAIN srv.calls |-> srv.requests[srv.calls[i]]], <<>>)
       IN /\ Self = r.s
          /\ \A i \in DOMAIN srv.calls : srv.log[srv.calls[i]].result = r.results[i]

EngineAccessSerializedWitness ==
    /\ srv.serving # {}
    /\ Len(srv.requests) > Len(srv.accepted)
    /\ Len(srv.calls) >= 1
    /\ index_map # EmptyMap

\* the engine call returned an error
failed(result) == result.tag \notin {"Ok", "None", "Some"}

\* C18: every connection whose request was a Get, Set or Remove is answered:
\* with Response::Err and the message of the error when the engine call
\* failed ("Key not found" for a Remove of an absent key), with
\* Response::Ok(None) after a successful Set or Remove, with Response::Ok of
\* the value or None after a Get; and the server goes on listening.
ErrorsBecomeResponses ==
    /\ srv.listening
    /\ \A c \in DOMAIN srv.log :
         LET e == srv.log[c]
         IN /\ c \notin srv.serving
            /\ e.request.type # "Bad" =>
                 /\ e.result # NoCall
                 /\ failed(e.result) =>
                      /\ e.response.type = "Err"
                      /\ e.response.message # ""
                      /\ e.result = KeyNotFound => e.response.message = "Key not found"
                 /\ (~failed(e.result) /\ e.request.type \in {"Set", "Remove"}) =>
                      e.response = ResponseOk(None)
                 /\ (~failed(e.result) /\ e.request.type = "Get") =>
                      /\ e.response = ResponseOk(e.result)
                      /\ e.result.tag \in {"None", "Some"}
            /\ (e.request.type = "Remove" /\ e.result = KeyNotFound) =>
                 e.response = ResponseErr("Key not found")

ErrorsBecomeResponsesWitness ==
    \E c, d \in DOMAIN srv.log :
        /\ c < d
        /\ srv.log[c].request.type = "Remove"
        /\ srv.log[c].response = ResponseErr("Key not found")
        /\ srv.log[d].request.type = "Get"
        /\ srv.log[d].response.type = "Ok"
        /\ srv.log[d].response.value.tag = "Some"

\* key k has a value in the directory: its most recent record is a Set
has_value(dir, k) ==
    places(dir, k) # {} /\ dir[latest(dir, k)[1]][latest(dir, k)[2]].type = "Set"

\* C19: a run of `kvs get KEY` for a key that has no value prints "Key not
\* found" and exits with status zero; a run of `kvs rm KEY` for a key that has
\* no value exits with a non-zero status.
CliMissingKey ==
    [][(last'.op = "kvs" /\ steps' = steps + 1 /\ ~has_value(db, cli'.key)) =>
         /\ cli'.cmd = "get" =>
              (cli'.stdout = <<PrintText("Key not found")>> /\ cli'.status = 0)
         /\ cli'.cmd = "rm" => cli'.status # 0]_vars

CliMissingKeyWitness ==
    /\ last.op = "kvs" /\ cli.cmd = "rm" /\ cli.status # 0
    /\ places(db, cli.key) # {}
    /\ \E k \in Keys : has_value(db, k)

\* C21: the index (key set and every Location's segment id, offset and length)
\* and the stale-byte counter that open() rebuilds by replaying the segments
\* in ascending id order equal the index and the counter the engine held
\* just before it was dropped.
ReplayEqualsWritePath ==
    (engine = "open" /\ last.op = "open" /\ last.after = "dropped") =>
        /\ index_map = pre.index_map
        /\ uncompacted = pre.uncompacted

ReplayEqualsWritePathWitness ==
    /\ engine = "open" /\ last.op = "open" /\ last.after = "dropped"
    /\ uncompacted > 0
    /\ removed # {}
    /\ \E k \in DOMAIN index_map : index_map[k].offset > 0

\* C22: when the call triggers no compaction, set(k, v) increases the
\* stale-byte counter by exactly the length of the Location stored for k
\* before (by 0 if k was absent), and a successful remove(k) increases it by
\* the length of k's removed Location plus the encoded length of the Remove
\* record it appends.
StaleAccounting ==
    [][(engine = "open" /\ steps' = steps + 1 /\ last'.op \in {"set", "remove"}
          /\ last'.res = Ok /\ ~last'.compacted) =>
         LET k == last'.key
             before == IF k \in DOMAIN index_map THEN index_map[k].length ELSE 0
         IN /\ last'.op = "set" => uncompacted' = uncompacted + before
            /\ last'.op = "remove" =>
                 uncompacted' = uncompacted + before + encode(CommandRemove(k)).len]_vars

StaleAccountingWitness ==
    /\ engine = "open" /\ last.op = "remove" /\ last.res = Ok /\ ~last.compacted
    /\ uncompacted > BigLen
    /\ index_map # EmptyMap

\* C23: set and remove run compact() inline, after their own record is in
\* the active segment, exactly when the stale-byte counter after their own
\* update is strictly greater than COMPACTION_THRESHOLD (a counter equal to
\* the threshold does not trigger it); whenever set or remove returns Ok the
\* counter is at most the threshold.
CompactionTrigger ==
    [][(engine = "open" /\ steps' = steps + 1 /\ last'.op \in {"set", "remove"}
          /\ last'.res = Ok) =>
         LET k == last'.key
             before == IF k \in DOMAIN index_map THEN index_map[k].length ELSE 0
             own == IF last'.op = "remove" THEN encode(CommandRemove(k)).len ELSE 0
             updated == uncompacted + before + own
             ran == current_file_num' # current_file_num
         IN /\ ran <=> updated > COMPACTION_THRESHOLD
            /\ ran => /\ current_file_num' = current_file_num + 2
                      /\ uncompacted' = 0
                      /\ current_file_num \notin DOMAIN db'
                      /\ last'.op = "set" =>
                           /\ index_map'[k].file_number = current_file_num + 1
                           /\ take(db'[current_file_num + 1], index_map'[k].offset,
                                   index_map'[k].length)
                                = encode(CommandSet(k, last'.value))
                      /\ last'.op = "remove" => k \notin DOMAIN index_map'
            /\ ~ran => uncompacted' = updated
            /\ uncompacted' <= COMPACTION_THRESHOLD]_vars

CompactionTriggerWitness ==
    /\ engine = "open" /\ last.op = "set" /\ last.res = Ok
    /\ uncompacted = COMPACTION_THRESHOLD
    /\ current_file_num = 1

\* the last call was, or ran inline, a compact() that returned Ok
JustCompacted ==
    /\ engine = "open"
    /\ last.op \in {"set", "remove", "compact"}
    /\ last.compacted
    /\ last.res = Ok

\* C24: when compact() returns Ok on an engine whose active segment id was a,
\* the segment files and the keys of the reader map are exactly {a+1, a+2};
\* a+2 is the new, empty active segment; every segment with id at most a,
\* the previously active one included, is deleted; the counter is 0.
CompactionPostState ==
    JustCompacted =>
        LET a == pre.current_file_num
        IN /\ DOMAIN db = {a + 1, a + 2}
           /\ readers = {a + 1, a + 2}
           /\ current_file_num = a + 2
           /\ writer = writer_new(a + 2)
           /\ db[a + 2] = <<>>
           /\ a \in pre.files
           /\ \A n \in pre.files : n <= a /\ n \notin DOMAIN db /\ n \notin readers
           /\ uncompacted = 0

CompactionPostStateWitness ==
    /\ JustCompacted
    /\ Cardinality(pre.files) >= 3
    /\ db[pre.current_file_num + 1] # <<>>
    /\ pre.uncompacted > 0

\* C25: after compact() returns Ok every index entry points into the
\* compacted segment with the length it had before, and the Locations tile
\* that segment: in key order their offsets are contiguous from 0 and their
\* lengths sum to the size of the segment, which holds one Set record per
\* live key and no Remove record.
CompactionRewritesLocations ==
    JustCompacted =>
        LET c == pre.current_file_num + 1
            ks == index_keys(index_map)
        IN /\ DOMAIN index_map = DOMAIN pre.index_map
           /\ \A k \in DOMAIN index_map :
                /\ index_map[k].file_number = c
                /\ index_map[k].length = pre.index_map[k].length
           /\ Len(db[c]) = Len(ks)
           /\ \A i \in 1..Len(ks) :
                /\ index_map[ks[i]].offset = offset_of(db[c], i)
                /\ index_map[ks[i]].offset
                     = (IF i = 1 THEN 0
                        ELSE index_map[ks[i - 1]].offset + index_map[ks[i - 1]].length)
                /\ db[c][i].type = "Set"
                /\ db[c][i].key = ks[i]
           /\ live_bytes(index_map) = file_len(db[c])

CompactionRewritesLocationsWitness ==
    /\ JustCompacted
    /\ Cardinality(DOMAIN index_map) = 2
    /\ \E k \in DOMAIN index_map : pre.index_map[k].offset # index_map[k].offset
    /\ pre.uncompacted > 0

\* C27: at every operation boundary the stale-byte counter equals the total
\* size of the segment files minus the sum of the lengths of the Locations
\* of the index: the number of dead bytes on disk.
CounterExact ==
    engine = "open" => uncompacted = dir_size(db) - live_bytes(index_map)

CounterExactWitness ==
    /\ engine = "open" /\ last.op = "open" /\ last.after = "dropped"
    /\ crossed >= 1
    /\ uncompacted > 0
    /\ live_bytes(index_map) > 0

\* C28: every segment id named by a Location of the index has a reader in the
\* reader map and its file is on disk, so the reader lookups of get and of
\* compact never panic.
ReaderAvailable ==
    /\ last.res # Panic
    /\ engine = "open" =>
         /\ \A k \in DOMAIN index_map :
              /\ index_map[k].file_number \in readers
              /\ index_map[k].file_number \in DOMAIN db
         /\ \A k \in Keys : get(Self, k) # Panic
         /\ compact(Self).res # Panic

ReaderAvailableWitness ==
    /\ engine = "open" /\ crossed >= 1
    /\ Cardinality(DOMAIN index_map) = 2
    /\ \E j, k \in DOMAIN index_map : index_map[j].file_number < index_map[k].file_number
    /\ \E n \in readers : \A k \in DOMAIN index_map : index_map[k].file_number # n

\* C29: when set, remove or compact returns an error because an I/O step
\* failed, get(k) returns for every key what it returned before the failed
\* call (so it neither panics nor fails), and the index is the one the
\* engine held before the call.
FailedCallsAtomic ==
    (engine = "open" /\ last.res = IoError) => GetAll(Self) = pre.gets

\* C26: whenever the engine call made by a run of the kvs program (set, get
\* or rm) returns an error of any kind, the program prints a diagnostic and
\* ends with a non-zero exit status.
CliErrorMapping ==
    (cli.cmd \in Subcommands /\ failed(cli.result)) =>
        (cli.stdout # <<>> /\ cli.status # 0)

====
